---- MODULE Spec2Model ----
(***************************************************************************)
(* resp_metrics: cycle segmentation from comment annotations               *)
(* (cycles.py) and the per-cycle metric engines (ventilatory.py,           *)
(* mechanical_vent.py).                                                    *)
(*                                                                         *)
(* Times are integers: the comment time stamps as given in the segmenter,  *)
(* ticks of 1/20 s in the engines.  Floats are exact rationals or NaN.      *)
(* A pandas DataFrame is a record [kind, cols, rows]; None is NoneDf.       *)
(***************************************************************************)
EXTENDS Integers, Sequences, FiniteSets, TLC

VARIABLES
    pc,          \* position of the caller: "start", "segmented", "done"
    comments_df, \* argument of cycles_from_comments
    block,       \* argument of cycles_from_comments
    cycles_df,   \* return value of cycles_from_comments / argument of the engines
    df_block,    \* waveform table handed to a metric engine
    engine,      \* which metric engine is called: "vent" or "mech"
    plateau_min_dur, \* keyword argument of mechanical_from_cycles
    result       \* outcome of the metric engine call

vars == <<pc, comments_df, block, cycles_df, df_block, engine, plateau_min_dur, result>>

----------------------------------------------------------------------------
(* Bounds of the segmenter specification *)
MaxEvents == 5

\* time stamps the comments are drawn from (holds the block-1 scenario 0, 2, 5, 7)
TimeGrid == {0, 2, 5, 7}
Blocks == {1, 2}
\* raw comment texts: LabChart labels as typed by the operator
RawLabels == {"INSPI", "EXPI", " inspi"}
\* (block, text) of a comment; the text of a comment of another block is never
\* read (the block filter runs first), so one text stands for all of them
EventKinds == {<<1, "INSPI">>, <<1, "EXPI">>, <<1, " inspi">>, <<2, "EXPI">>}

----------------------------------------------------------------------------
(* Generic sequence helpers *)

RECURSIVE SelectIdx(_, _, _)
\* indices i of 1..n (ascending) with Keep[i], as a sequence: numpy boolean mask
SelectIdx(Keep, i, n) ==
    IF i > n THEN <<>>
    ELSE (IF Keep[i] THEN <<i>> ELSE <<>>) \o SelectIdx(Keep, i + 1, n)

\* the value absent from a float column (NaN / None)
NoneDf == [kind |-> "None", cols |-> <<>>, rows |-> <<>>]

ColSet(df) == {df.cols[i] : i \in 1..Len(df.cols)}

\* DataFrame.empty: no rows or no columns
IsEmptyDf(df) == Len(df.rows) = 0 \/ Len(df.cols) = 0

----------------------------------------------------------------------------
(* cycles.py *)

\* c["Comment"].astype(str).str.strip().str.upper()
StripUpper(s) ==
    CASE s = "INSPI"  -> "INSPI"
      [] s = " inspi" -> "INSPI"
      [] s = "inspi"  -> "INSPI"
      [] s = "EXPI"   -> "EXPI"
      [] s = "expi"   -> "EXPI"
      [] OTHER        -> s

CyclesSchema == <<"n_cycle", "t_inspi", "t_expi", "t_next_inspi">>

EmptyCycles == [kind |-> "df", cols |-> CyclesSchema, rows |-> <<>>]

\* comments_df.loc[comments_df["block"] == block]
FilterBlock(rows, b) ==
    LET keep == [i \in 1..Len(rows) |-> rows[i].block = b]
        idx == SelectIdx(keep, 1, Len(rows))
    IN [k \in 1..Len(idx) |-> rows[idx[k]]]

\* t[lab == label.upper()]
TimesOf(c, label) ==
    LET keep == [i \in 1..Len(c) |-> StripUpper(c[i].Comment) = StripUpper(label)]
        idx == SelectIdx(keep, 1, Len(c))
    IN [k \in 1..Len(idx) |-> c[idx[k]].time_block]

\* variant: t_expi[t_expi >= ti]
ExAfterGeq(t_expi, ti) ==
    LET keep == [i \in 1..Len(t_expi) |-> t_expi[i] >= ti]
        idx == SelectIdx(keep, 1, Len(t_expi))
    IN [k \in 1..Len(idx) |-> t_expi[idx[k]]]

\* t_expi[t_expi > ti]
ExAfter(t_expi, ti) ==
    LET keep == [i \in 1..Len(t_expi) |-> t_expi[i] > ti]
        idx == SelectIdx(keep, 1, Len(t_expi))
    IN [k \in 1..Len(idx) |-> t_expi[idx[k]]]

\* variant: t_inspi[:-2]
ScannedInspiShort(t_inspi) ==
    IF Len(t_inspi) < 2 THEN <<>> ELSE SubSeq(t_inspi, 1, Len(t_inspi) - 2)

\* t_inspi[:-1]: the inspiration onsets the loop scans
ScannedInspi(t_inspi) ==
    IF Len(t_inspi) = 0 THEN <<>> ELSE SubSeq(t_inspi, 1, Len(t_inspi) - 1)

\* variant: t_inspi[-1]
NextInspiLast(t_inspi, i) == t_inspi[Len(t_inspi)]

\* t_inspi[i + 1] for the (1-based) scan position i
NextInspi(t_inspi, i) == t_inspi[i + 1]

\* the row appended for scan position i
CycleRow(t_inspi, t_expi, i) ==
    [t_inspi |-> t_inspi[i],
     t_expi |-> ExAfter(t_expi, t_inspi[i])[1],
     t_next_inspi |-> NextInspi(t_inspi, i)]

RECURSIVE ScanRows(_, _, _, _)
\* the for loop over enumerate(t_inspi[:-1]), from scan position i on
ScanRows(t_inspi, t_expi, i, n) ==
    IF i > n THEN <<>>
    ELSE (IF Len(ExAfter(t_expi, t_inspi[i])) > 0
          THEN <<CycleRow(t_inspi, t_expi, i)>>
          ELSE <<>>) \o ScanRows(t_inspi, t_expi, i + 1, n)

\* variant: range(len(out))
NCycleZeroBased(k) == k - 1

\* the number given to the k-th emitted row: range(1, len(out) + 1)
NCycle(k) == k

\* variant: rows sharing the t_expi of the row before them are dropped
RowsToFrameDedup(rows) ==
    LET keep == [k \in 1..Len(rows) |-> k = 1 \/ rows[k].t_expi # rows[k - 1].t_expi]
        idx == SelectIdx(keep, 1, Len(rows))
    IN IF Len(rows) = 0
       THEN [kind |-> "df", cols |-> <<>>, rows |-> <<>>]
       ELSE [kind |-> "df", cols |-> CyclesSchema,
             rows |-> [k \in 1..Len(idx) |->
                         [n_cycle |-> k,
                          t_inspi |-> rows[idx[k]].t_inspi,
                          t_expi |-> rows[idx[k]].t_expi,
                          t_next_inspi |-> rows[idx[k]].t_next_inspi]]]

\* out = pd.DataFrame(rows); out.insert(0, "n_cycle", ...) when not empty
RowsToFrame(rows) ==
    IF Len(rows) = 0
    THEN [kind |-> "df", cols |-> <<>>, rows |-> <<>>]
    ELSE [kind |-> "df", cols |-> CyclesSchema,
          rows |-> [k \in 1..Len(rows) |->
                      [n_cycle |-> NCycle(k),
                       t_inspi |-> rows[k].t_inspi,
                       t_expi |-> rows[k].t_expi,
                       t_next_inspi |-> rows[k].t_next_inspi]]]

\* cycles_from_comments(comments_df, block) with the default labels
cycles_from_comments(cdf, b) ==
    IF cdf.kind = "None" \/ IsEmptyDf(cdf) THEN EmptyCycles
    ELSE LET c == FilterBlock(cdf.rows, b) IN
         IF Len(c) = 0 THEN EmptyCycles
         ELSE LET t_inspi == TimesOf(c, "INSPI")
                  t_expi == TimesOf(c, "EXPI")
              IN RowsToFrame(ScanRows(t_inspi, t_expi, 1,
                                      Len(ScannedInspi(t_inspi))))

----------------------------------------------------------------------------
(* Floats.  A float is NaN or a rational n/d in lowest terms with d > 0, so   *)
(* that equal values are equal records.  Waveform samples are finite.         *)

NaN == [fin |-> FALSE, n |-> 0, d |-> 1]

Abs(x) == IF x < 0 THEN -x ELSE x

RECURSIVE Gcd(_, _)
Gcd(a, b) == IF b = 0 THEN a ELSE Gcd(b, a % b)

\* the float n/d, d > 0
Frac(n, d) ==
    LET g == Gcd(Abs(n), d) IN [fin |-> TRUE, n |-> n \div g, d |-> d \div g]

Fl(n) == [fin |-> TRUE, n |-> n, d |-> 1]

\* np.isfinite / pd.notna
IsFinite(a) == a.fin

FNeg(a) == IF a.fin THEN [fin |-> TRUE, n |-> -a.n, d |-> a.d] ELSE NaN
FAdd(a, b) == IF a.fin /\ b.fin THEN Frac(a.n * b.d + b.n * a.d, a.d * b.d) ELSE NaN
FSub(a, b) == FAdd(a, FNeg(b))
FMul(a, b) == IF a.fin /\ b.fin THEN Frac(a.n * b.n, a.d * b.d) ELSE NaN
\* a / b; every division of the engines is guarded by b > 0
FDiv(a, b) ==
    IF a.fin /\ b.fin /\ b.n > 0 THEN Frac(a.n * b.d, a.d * b.n)
    ELSE IF a.fin /\ b.fin /\ b.n < 0 THEN Frac(-(a.n * b.d), a.d * (-b.n))
    ELSE NaN
FAbs(a) == IF a.fin THEN [fin |-> TRUE, n |-> Abs(a.n), d |-> a.d] ELSE NaN
\* comparisons: False as soon as an operand is NaN
FLt(a, b) == a.fin /\ b.fin /\ a.n * b.d < b.n * a.d
FLe(a, b) == a.fin /\ b.fin /\ a.n * b.d <= b.n * a.d
FGt(a, b) == FLt(b, a)
FGe(a, b) == FLe(b, a)
\* Python max / min of two finite floats
FMax2(a, b) == IF FGt(b, a) THEN b ELSE a
FMin2(a, b) == IF FLt(b, a) THEN b ELSE a

\* time stamps are counted in ticks of 1/20 s; Sec(k) is k ticks in seconds
Sec(k) == Frac(k, 20)

----------------------------------------------------------------------------
(* Numeric primitives shared by ventilatory.py and mechanical_vent.py.       *)
(* Indices are 1-based here: index i stands for the Python index i - 1.      *)

RECURSIVE ArgMin(_, _, _)
\* the first index of i..Len(d) holding the least value of d from `best` on
ArgMin(d, i, best) ==
    IF i > Len(d) THEN best
    ELSE ArgMin(d, i + 1, IF d[i] < d[best] THEN i ELSE best)

\* _nearest_idx(vec, target) = int(np.abs(vec - target).argmin())
nearest_idx(vec, target) ==
    ArgMin([i \in 1..Len(vec) |-> Abs(vec[i] - target)], 1, 1)

RECURSIVE TrapzSum(_, _, _, _)
\* np.trapz over the samples a..b: sum of (x[k+1] - x[k]) * (y[k] + y[k+1]) / 2
TrapzSum(y, x, a, b) ==
    IF a >= b THEN Fl(0)
    ELSE FAdd(FMul(Sec(x[a + 1] - x[a]), FDiv(FAdd(y[a], y[a + 1]), Fl(2))),
              TrapzSum(y, x, a + 1, b))

\* _trapz(y[a:b+1], x[a:b+1]): NaN when the slice holds fewer than two samples
trapz(y, x, a, b) ==
    IF b - a + 1 < 2 THEN NaN ELSE TrapzSum(y, x, a, b)

RECURSIVE SegMax(_, _, _)
\* np.nanmax(y[a:b+1]) on a non-empty slice
SegMax(y, a, b) == IF a >= b THEN y[a] ELSE FMax2(y[a], SegMax(y, a + 1, b))

RECURSIVE SegMin(_, _, _)
\* np.nanmin(y[a:b+1]) on a non-empty slice
SegMin(y, a, b) == IF a >= b THEN y[a] ELSE FMin2(y[a], SegMin(y, a + 1, b))

RECURSIVE InsertSorted(_, _)
InsertSorted(srt, v) ==
    IF Len(srt) = 0 THEN <<v>>
    ELSE IF FLt(v, srt[1]) THEN <<v>> \o srt
    ELSE <<srt[1]>> \o InsertSorted(Tail(srt), v)

RECURSIVE SortFloats(_)
SortFloats(vals) ==
    IF Len(vals) = 0 THEN <<>> ELSE InsertSorted(SortFloats(Tail(vals)), vals[1])

\* np.nanmedian of a non-empty sequence of finite floats
Median(vals) ==
    LET srt == SortFloats(vals)
        n == Len(srt)
    IN IF n % 2 = 1 THEN srt[(n + 1) \div 2]
       ELSE FDiv(FAdd(srt[n \div 2], srt[n \div 2 + 1]), Fl(2))

----------------------------------------------------------------------------
(* The waveform table df_block: rows of samples; `cols` names the columns   *)
(* the table has (a sample's field of a column the table lacks is unused).  *)

HasCol(df, c) == c \in ColSet(df)

TimeOf(df) == [i \in 1..Len(df.rows) |-> df.rows[i].time_abs]
\* df_block[flow_col].to_numpy().astype(float) / 60.0
FlowOf(df) == [i \in 1..Len(df.rows) |-> Frac(df.rows[i].Flow, 60)]
PressureOf(df) == [i \in 1..Len(df.rows) |-> Fl(df.rows[i].Pressure)]
VolumeOf(df) == [i \in 1..Len(df.rows) |-> Fl(df.rows[i].VolumeResp)]

KeyError == [kind |-> "KeyError", cols |-> <<>>, rows |-> <<>>]

----------------------------------------------------------------------------
(* The cycle table as both engines prepare it *)

\* 't_insp' if present, else the legacy 't_inspi', else None
TiCol(cyc) ==
    IF HasCol(cyc, "t_insp") THEN "t_insp"
    ELSE IF HasCol(cyc, "t_inspi") THEN "t_inspi" ELSE "None"

\* row[ti_col]
RowTi(row, ti_col) == IF ti_col = "t_insp" THEN row.t_insp ELSE row.t_inspi

RECURSIVE InsertByTiLast(_, _)
\* r inserted into the sorted rows srt, after the rows of equal key
InsertByTiLast(srt, r) ==
    IF Len(srt) = 0 THEN <<r>>
    ELSE IF r.ti < srt[1].ti THEN <<r>> \o srt
    ELSE <<srt[1]>> \o InsertByTiLast(Tail(srt), r)

RECURSIVE SortByTi(_)
\* cyc.sort_values(ti_col): ascending, rows of equal key keep their order
SortByTi(rows) ==
    IF Len(rows) = 0 THEN <<>>
    ELSE LET n == Len(rows) IN
         InsertByTiLast(SortByTi(SubSeq(rows, 1, n - 1)), rows[n])

\* variant: np.roll(cyc[ti_col], -1), the last row wraps to the first
ShiftedNextWrap(srt, k) == IF k < Len(srt) THEN Fl(srt[k + 1].ti) ELSE Fl(srt[1].ti)

\* cyc[ti_col].shift(-1): the t_insp of the next row, NaN on the last row
ShiftedNext(srt, k) == IF k < Len(srt) THEN Fl(srt[k + 1].ti) ELSE NaN

\* cycles_df[use_cols].dropna().sort_values(ti_col) with n_cycle and
\* t_next_insp added; the cycle times of the table are never NaN
PrepareCycles(cyc) ==
    LET ti_col == TiCol(cyc)
        has_n == HasCol(cyc, "n_cycle")
        base == [k \in 1..Len(cyc.rows) |->
                   [ti |-> RowTi(cyc.rows[k], ti_col),
                    te |-> cyc.rows[k].t_expi,
                    n_cycle |-> IF has_n THEN cyc.rows[k].n_cycle ELSE 0]]
        srt == SortByTi(base)
    IN [k \in 1..Len(srt) |->
          [n_cycle |-> IF has_n THEN srt[k].n_cycle ELSE k,
           ti |-> srt[k].ti,
           te |-> srt[k].te,
           t_next |-> ShiftedNext(srt, k)]]

----------------------------------------------------------------------------
(* ventilatory.py *)

VentSchema ==
    <<"n_cycle", "t_insp", "t_expi", "Ti", "Ttot", "Te", "BF", "VT", "VE", "PIF", "PEF", "IE">>

\* the guard clauses' return value
EmptyVent == [kind |-> "df", cols |-> VentSchema, rows |-> <<>>]

\* Ttot: t[i_next] - t[i_insp] when t_next is not NaN
VentTtot(t, i_insp, t_next) ==
    IF IsFinite(t_next) THEN Sec(t[nearest_idx(t, t_next.n)] - t[i_insp]) ELSE NaN

\* VT: the volume difference if the volume column exists, else minus the
\* integral of the flow over the inspiratory span, else NaN
VentVT(t, has_flow, has_vol, flow, vol, i_insp, i_expi) ==
    LET i0 == IF i_insp <= i_expi THEN i_insp ELSE i_expi
        i1 == IF i_insp <= i_expi THEN i_expi ELSE i_insp
    IN IF has_vol THEN FSub(vol[i_expi], vol[i_insp])
       ELSE IF has_flow THEN FNeg(trapz(flow, t, i0, i1))
       ELSE NaN

\* variant: the order of i_next and i_expi is not checked
VentPEFUnguarded(t, has_flow, flow, i_expi, t_next) ==
    IF has_flow /\ IsFinite(t_next)
    THEN SegMax(flow, i_expi, nearest_idx(t, t_next.n))
    ELSE NaN

\* PEF: the largest flow sample of [i_expi, i_next] when i_next > i_expi
VentPEF(t, has_flow, flow, i_expi, t_next) ==
    IF has_flow /\ IsFinite(t_next) /\ nearest_idx(t, t_next.n) > i_expi
    THEN SegMax(flow, i_expi, nearest_idx(t, t_next.n))
    ELSE NaN

\* one pass of the loop over cyc.iterrows()
VentRow(t, has_flow, has_vol, flow, vol, c) ==
    LET i_insp == nearest_idx(t, c.ti)
        i_expi == nearest_idx(t, c.te)
        i0 == IF i_insp <= i_expi THEN i_insp ELSE i_expi
        i1 == IF i_insp <= i_expi THEN i_expi ELSE i_insp
        Ti == Sec(t[i_expi] - t[i_insp])
        Ttot == VentTtot(t, i_insp, c.t_next)
        Te == IF IsFinite(Ttot) THEN FSub(Ttot, Ti) ELSE NaN
        BF == IF IsFinite(Ttot) /\ FGt(Ttot, Fl(0)) THEN FDiv(Fl(60), Ttot) ELSE NaN
        VT == VentVT(t, has_flow, has_vol, flow, vol, i_insp, i_expi)
        VE == IF IsFinite(BF) /\ IsFinite(VT) THEN FMul(BF, VT) ELSE NaN
        PIF == IF has_flow THEN FAbs(SegMin(flow, i0, i1)) ELSE NaN
        PEF == VentPEF(t, has_flow, flow, i_expi, c.t_next)
        IE == IF IsFinite(Ti) /\ IsFinite(Te) /\ FGt(Te, Fl(0)) THEN FDiv(Ti, Te) ELSE NaN
    IN [n_cycle |-> c.n_cycle, t_insp |-> Sec(t[i_insp]), t_expi |-> Sec(t[i_expi]),
        Ti |-> Ti, Ttot |-> Ttot, Te |-> Te, BF |-> BF,
        VT |-> VT, VE |-> VE, PIF |-> PIF, PEF |-> PEF, IE |-> IE]

\* pd.DataFrame(rows): the columns are the keys of the row dicts
FrameOf(rows, schema) ==
    [kind |-> "df", cols |-> IF Len(rows) = 0 THEN <<>> ELSE schema, rows |-> rows]

\* variant: the flow column is required as well
VentRaisesOnMissingFlow(df) == ~HasCol(df, "time_abs") \/ ~HasCol(df, "Flow")

\* which waveform columns make ventilatory_from_cycles raise when absent
VentRaisesOnMissing(df) == ~HasCol(df, "time_abs")

\* ventilatory_from_cycles(df_block, cycles_df) with the default column names
ventilatory_from_cycles(df, cyc) ==
    IF df.kind = "None" \/ IsEmptyDf(df) THEN EmptyVent
    ELSE IF cyc.kind = "None" \/ IsEmptyDf(cyc) THEN EmptyVent
    ELSE IF VentRaisesOnMissing(df) THEN KeyError
    ELSE IF TiCol(cyc) = "None" THEN KeyError
    ELSE IF ~HasCol(cyc, "t_expi") THEN KeyError
    ELSE LET t == TimeOf(df)
             has_flow == HasCol(df, "Flow")
             has_vol == HasCol(df, "VolumeResp")
             flow == FlowOf(df)
             vol == VolumeOf(df)
             cy == PrepareCycles(cyc)
         IN FrameOf([k \in 1..Len(cy) |-> VentRow(t, has_flow, has_vol, flow, vol, cy[k])],
                    VentSchema)

----------------------------------------------------------------------------
(* mechanical_vent.py *)

MechSchema ==
    <<"n_cycle", "t_insp", "t_expi", "Ti", "Ttot", "Te", "BF", "VT", "VE", "PIF", "PEF", "IE",
      "PEEP", "Ppeak", "Pplat", "dP", "Cstat", "R", "MAP">>

\* the columns of the table the guard clauses return
MechEmptySchema ==
    <<"n_cycle", "t_insp", "t_expi", "PEEP", "Ppeak", "Pplat", "dP", "Cstat", "R", "MAP">>

EmptyMech == [kind |-> "df", cols |-> MechEmptySchema, rows |-> <<>>]

\* keyword defaults
peep_window == Frac(20, 100)
plateau_flow_thresh == Frac(5, 100)
plateau_min_dur_default == Frac(10, 100)

\* needed = {"time_abs", pressure_col, flow_col}
MechNeeded == {"time_abs", "Pressure", "Flow"}

\* Ttot: t[i_next] - t[i_insp] when t_next is not NaN
MechTtot(t, i_insp, t_next) ==
    IF IsFinite(t_next) THEN Sec(t[nearest_idx(t, t_next.n)] - t[i_insp]) ELSE NaN

\* VT: V[i1] - V[i0] if the volume column exists, else the integral of the flow
MechVT(t, has_vol, F, V, i0, i1) ==
    IF has_vol THEN FSub(V[i1], V[i0]) ELSE trapz(F, t, i0, i1)

\* PEF: magnitude of the least flow sample of [i_expi, i_next] when i_next > i_expi
MechPEF(t, F, i_expi, t_next) ==
    IF IsFinite(t_next) /\ nearest_idx(t, t_next.n) > i_expi
    THEN FAbs(SegMin(F, i_expi, nearest_idx(t, t_next.n)))
    ELSE NaN

\* PEEP: median pressure over [max(t[0], ti - peep_window), ti)
MechPEEP(t, P, ti) ==
    LET t0_peep == FMax2(Sec(t[1]), FSub(Sec(ti), peep_window))
        m_peep == [i \in 1..Len(t) |-> FGe(Sec(t[i]), t0_peep) /\ FLt(Sec(t[i]), Sec(ti))]
        idx == SelectIdx(m_peep, 1, Len(t))
    IN IF Len(idx) > 0 THEN Median([k \in 1..Len(idx) |-> P[idx[k]]]) ELSE NaN

\* Ppeak: the largest pressure sample of the inspiratory span
MechPpeak(P, i0, i1) == IF i1 > i0 THEN SegMax(P, i0, i1) ELSE NaN

\* variant: the window is not closed at the end of inspiration
TailMaskOpenEnd(t, i0, i1) ==
    LET insp_dur == FMax2(Sec(t[i1] - t[i0]), Fl(0))
        tail_win == FMax2(Frac(15, 100), FMul(Frac(3, 10), insp_dur))
        t_start_tail == FMax2(Sec(t[i0]), FSub(Sec(t[i1]), tail_win))
    IN [i \in 1..Len(t) |-> FGe(Sec(t[i]), t_start_tail)]

\* m_tail: the samples of the tail window of the inspiratory span
TailMask(t, i0, i1) ==
    LET insp_dur == FMax2(Sec(t[i1] - t[i0]), Fl(0))
        tail_win == FMax2(Frac(15, 100), FMul(Frac(3, 10), insp_dur))
        t_start_tail == FMax2(Sec(t[i0]), FSub(Sec(t[i1]), tail_win))
    IN [i \in 1..Len(t) |-> FGe(Sec(t[i]), t_start_tail) /\ FLe(Sec(t[i]), Sec(t[i1]))]

\* m_low = m_tail & (np.abs(F) <= plateau_flow_thresh)
LowMask(t, F, i0, i1) ==
    LET m_tail == TailMask(t, i0, i1)
    IN [i \in 1..Len(t) |-> m_tail[i] /\ FLe(FAbs(F[i]), plateau_flow_thresh)]

RECURSIVE RunsOf(_, _, _)
\* the maximal runs <<a, b>> of consecutive indices in idx[k..], the run begun at a
RunsOf(idx, k, a) ==
    IF k > Len(idx) THEN <<>>
    ELSE IF k = Len(idx) \/ idx[k + 1] - idx[k] > 1
         THEN <<<<a, idx[k]>>>> \o
              (IF k = Len(idx) THEN <<>> ELSE RunsOf(idx, k + 1, idx[k + 1]))
         ELSE RunsOf(idx, k + 1, a)

\* variant: the minimum duration is not checked
RunQualifiesAnyDur(dur, min_dur, best_dur) == FGt(dur, best_dur)

\* whether the run of duration dur replaces the best run so far
RunQualifies(dur, min_dur, best_dur) == FGe(dur, min_dur) /\ FGt(dur, best_dur)

RECURSIVE BestRun(_, _, _, _, _, _)
\* the loop over zip(starts, ends): best is <<>> for None
BestRun(t, runs, k, min_dur, best, best_dur) ==
    IF k > Len(runs) THEN best
    ELSE LET dur == Sec(t[runs[k][2]] - t[runs[k][1]])
         IN IF RunQualifies(dur, min_dur, best_dur)
            THEN BestRun(t, runs, k + 1, min_dur, runs[k], dur)
            ELSE BestRun(t, runs, k + 1, min_dur, best, best_dur)

\* the run chosen for the plateau, <<>> when there is none
PlateauRun(t, F, i0, i1, min_dur) ==
    LET idx == SelectIdx(LowMask(t, F, i0, i1), 1, Len(t))
    IN IF Len(idx) = 0 THEN <<>>
       ELSE BestRun(t, RunsOf(idx, 1, idx[1]), 1, min_dur, <<>>, Fl(0))

\* Pplat: median pressure over the chosen run
MechPplat(t, F, P, i0, i1, min_dur) ==
    LET best == PlateauRun(t, F, i0, i1, min_dur)
    IN IF best = <<>> THEN NaN
       ELSE Median([k \in 1..(best[2] - best[1] + 1) |-> P[best[1] + k - 1]])

\* driving pressure
MechDP(Pplat, Ppeak, PEEP) ==
    IF IsFinite(Pplat) /\ IsFinite(PEEP) THEN FSub(Pplat, PEEP)
    ELSE IF IsFinite(Ppeak) /\ IsFinite(PEEP) THEN FSub(Ppeak, PEEP)
    ELSE NaN

\* static compliance
MechCstat(VT, Pplat, PEEP) ==
    IF IsFinite(VT) /\ IsFinite(Pplat) /\ IsFinite(PEEP) /\ FGt(Pplat, PEEP)
    THEN FDiv(VT, FSub(Pplat, PEEP))
    ELSE NaN

\* airway resistance
MechR(F, Ppeak, Pplat, i0, i1) ==
    IF IsFinite(Ppeak) /\ IsFinite(Pplat) /\ FGt(Ppeak, Pplat)
    THEN LET PIF_res == IF i1 > i0 THEN SegMax(F, i0, i1) ELSE NaN
         IN IF IsFinite(PIF_res) /\ FGt(PIF_res, Fl(0))
            THEN FDiv(FSub(Ppeak, Pplat), PIF_res)
            ELSE NaN
    ELSE NaN

\* mean airway pressure over [i_insp, max(i_expi, i_next)]
MechMAP(t, P, i_insp, i_expi, t_next) ==
    LET i_end == IF IsFinite(t_next)
                 THEN (IF nearest_idx(t, t_next.n) > i_expi
                       THEN nearest_idx(t, t_next.n) ELSE i_expi)
                 ELSE i_expi
        i2 == i_insp
        i3 == IF i_end < Len(t) THEN i_end ELSE Len(t)
        MAP_int == trapz(P, t, i2, i3)
        Ttot_map == IF i3 > i2 THEN Sec(t[i3] - t[i2]) ELSE NaN
    IN IF IsFinite(MAP_int) /\ IsFinite(Ttot_map) /\ FGt(Ttot_map, Fl(0))
       THEN FDiv(MAP_int, Ttot_map)
       ELSE NaN

\* one pass of the loop over cyc.iterrows()
MechRow(t, has_vol, F, P, V, c, min_dur) ==
    LET i_insp == nearest_idx(t, c.ti)
        i_expi == nearest_idx(t, c.te)
        i0 == IF i_insp <= i_expi THEN i_insp ELSE i_expi
        i1 == IF i_insp <= i_expi THEN i_expi ELSE i_insp
        Ti == Sec(t[i_expi] - t[i_insp])
        Ttot == MechTtot(t, i_insp, c.t_next)
        Te == IF IsFinite(Ttot) THEN FSub(Ttot, Ti) ELSE NaN
        BF == IF IsFinite(Ttot) /\ FGt(Ttot, Fl(0)) THEN FDiv(Fl(60), Ttot) ELSE NaN
        VT == MechVT(t, has_vol, F, V, i0, i1)
        VE == IF IsFinite(BF) /\ IsFinite(VT) THEN FMul(BF, VT) ELSE NaN
        PIF == SegMax(F, i0, i1)
        PEF == MechPEF(t, F, i_expi, c.t_next)
        IE == IF IsFinite(Ti) /\ IsFinite(Te) /\ FGt(Te, Fl(0)) THEN FDiv(Ti, Te) ELSE NaN
        PEEP == MechPEEP(t, P, c.ti)
        Ppeak == MechPpeak(P, i0, i1)
        Pplat == MechPplat(t, F, P, i0, i1, min_dur)
    IN [n_cycle |-> c.n_cycle, t_insp |-> Sec(t[i_insp]), t_expi |-> Sec(t[i_expi]),
        Ti |-> Ti, Ttot |-> Ttot, Te |-> Te, BF |-> BF,
        VT |-> VT, VE |-> VE, PIF |-> PIF, PEF |-> PEF, IE |-> IE,
        PEEP |-> PEEP, Ppeak |-> Ppeak, Pplat |-> Pplat,
        dP |-> MechDP(Pplat, Ppeak, PEEP),
        Cstat |-> MechCstat(VT, Pplat, PEEP),
        R |-> MechR(F, Ppeak, Pplat, i0, i1),
        MAP |-> MechMAP(t, P, i_insp, i_expi, c.t_next)]

\* the first guard: a needed waveform column is absent
MechLacksNeeded(df) == ~(MechNeeded \subseteq ColSet(df))

\* mechanical_from_cycles(df_block, cycles_df, plateau_min_dur=min_dur)
mechanical_from_cycles(df, cyc, min_dur) ==
    IF df.kind = "None" \/ IsEmptyDf(df) \/ MechLacksNeeded(df) THEN EmptyMech
    ELSE IF cyc.kind = "None" \/ IsEmptyDf(cyc) THEN EmptyMech
    ELSE IF TiCol(cyc) = "None" THEN KeyError
    ELSE IF ~HasCol(cyc, "t_expi") THEN KeyError
    ELSE LET t == TimeOf(df)
             has_vol == HasCol(df, "VolumeResp")
             F == FlowOf(df)
             P == PressureOf(df)
             V == VolumeOf(df)
             cy == PrepareCycles(cyc)
         IN FrameOf([k \in 1..Len(cy) |-> MechRow(t, has_vol, F, P, V, cy[k], min_dur)],
                    MechSchema)

----------------------------------------------------------------------------
(* Inputs of the segmenter: comment lists whose times are non-decreasing *)

CommentsSchema == <<"time_block", "block", "Comment">>

Comment(t, b, l) == [time_block |-> t, block |-> b, Comment |-> l]

RECURSIVE SortedTimes(_)
\* all non-decreasing sequences of n time stamps
SortedTimes(n) ==
    IF n = 0 THEN {<<>>}
    ELSE UNION {
           {Append(s, t) : t \in {x \in TimeGrid : Len(s) = 0 \/ x >= s[Len(s)]}} :
           s \in SortedTimes(n - 1)}

\* the comments table with time stamps ts and (block, text) pairs bl
CommentFrame(ts, bl) ==
    [kind |-> "df", cols |-> CommentsSchema,
     rows |-> [i \in 1..Len(ts) |-> Comment(ts[i], bl[i][1], bl[i][2])]]

NoWaveform == [kind |-> "None", cols |-> <<>>, rows |-> <<>>]
NoResult == [kind |-> "none", cols |-> <<>>, rows |-> <<>>]

InitSeg ==
    /\ pc = "start"
    /\ \/ comments_df = NoneDf
       \/ \E n \in 0..MaxEvents :
            \E ts \in SortedTimes(n) :
              \E bl \in [1..n -> EventKinds] :
                comments_df = CommentFrame(ts, bl)
    /\ block = 1
    /\ cycles_df = NoneDf
    /\ df_block = NoWaveform
    /\ engine = "none"
    /\ plateau_min_dur = plateau_min_dur_default
    /\ result = NoResult

\* the call cycles = cycles_from_comments(lc.comments, block=block)
CallCycles ==
    /\ pc = "start"
    /\ cycles_df' = cycles_from_comments(comments_df, block)
    /\ pc' = "segmented"
    /\ UNCHANGED <<comments_df, block, df_block, engine, plateau_min_dur, result>>

NextSeg == CallCycles

SpecSeg == InitSeg /\ [][NextSeg]_vars

----------------------------------------------------------------------------
(* Inputs of the metric engines *)

\* bounds of the engine specifications
NSamples == 4
PipeMaxEvents == 4

AllCols == <<"time_abs", "Flow", "Pressure", "VolumeResp">>
AllColSet == {"time_abs", "Flow", "Pressure", "VolumeResp"}

\* the columns of the set S, in table order
ColsOf(S) == SelectSeq(AllCols, LAMBDA c : c \in S)

\* sample period in ticks (fixed sample grid)
GridSteps == {1, 2}
\* flow samples, L/min
FlowVals == {-30, 15}
\* volume channels
VolShapes(n) == {[i \in 1..n |-> i - 1], [i \in 1..n |-> IF i % 2 = 0 THEN 1 ELSE 0]}
\* the pressure channel of the engine specification
PressureRamp(n) == [i \in 1..n |-> 5 * i]
Zeros(n) == [i \in 1..n |-> 0]

\* a waveform table of n samples with period `step`
Waveform(S, n, step, fs, ps, vs) ==
    [kind |-> "df", cols |-> ColsOf(S),
     rows |-> [i \in 1..n |->
                 [time_abs |-> (i - 1) * step, Flow |-> fs[i],
                  Pressure |-> ps[i], VolumeResp |-> vs[i]]]]

EmptyWaveform == [kind |-> "df", cols |-> AllCols, rows |-> <<>>]

\* tables with time, flow and pressure: every flow signal, with and without volume
FullWaveforms ==
    {Waveform(AllColSet \ {"VolumeResp"}, NSamples, step, fs, PressureRamp(NSamples),
              Zeros(NSamples)) :
        step \in GridSteps, fs \in [1..NSamples -> FlowVals]}
    \cup
    {Waveform(AllColSet, NSamples, step, fs, PressureRamp(NSamples), vs) :
        step \in GridSteps, fs \in [1..NSamples -> FlowVals], vs \in VolShapes(NSamples)}

\* tables lacking time, flow or pressure: one signal per column set
LackingWaveforms ==
    {Waveform(S, NSamples, 2,
              IF "Flow" \in S THEN [i \in 1..NSamples |-> IF i <= 2 THEN -30 ELSE 15]
              ELSE Zeros(NSamples),
              IF "Pressure" \in S THEN PressureRamp(NSamples) ELSE Zeros(NSamples),
              IF "VolumeResp" \in S THEN [i \in 1..NSamples |-> i - 1] ELSE Zeros(NSamples)) :
        S \in {X \in SUBSET AllColSet : ~({"time_abs", "Flow", "Pressure"} \subseteq X)}}

Waveforms == {NoWaveform, EmptyWaveform} \cup FullWaveforms \cup LackingWaveforms

\* comment times (ticks) of the engine specification
PipeTimes == {0, 1, 3, 4, 6}
PipeKinds == {<<1, "INSPI">>, <<1, "EXPI">>}

RECURSIVE PipeSortedTimes(_)
PipeSortedTimes(n) ==
    IF n = 0 THEN {<<>>}
    ELSE UNION {
           {Append(s, t) : t \in {x \in PipeTimes : Len(s) = 0 \/ x >= s[Len(s)]}} :
           s \in PipeSortedTimes(n - 1)}

\* the cycle tables cycles_from_comments returns on the comment lists of
\* at most PipeMaxEvents comments
PipeCycleTables ==
    UNION {
      {cycles_from_comments(CommentFrame(ts, bl), 1) :
         ts \in PipeSortedTimes(n), bl \in [1..n -> PipeKinds]} :
      n \in 0..PipeMaxEvents}

InitEng ==
    /\ pc = "segmented"
    /\ comments_df = NoneDf
    /\ block = 1
    /\ cycles_df \in PipeCycleTables \cup {NoneDf}
    /\ df_block \in Waveforms
    /\ engine = "none"
    /\ plateau_min_dur = plateau_min_dur_default
    /\ result = NoResult

\* vent = ventilatory_from_cycles(df_block, cycles, ...)
CallVentilatory ==
    /\ pc = "segmented"
    /\ result' = ventilatory_from_cycles(df_block, cycles_df)
    /\ engine' = "vent"
    /\ pc' = "done"
    /\ UNCHANGED <<comments_df, block, cycles_df, df_block, plateau_min_dur>>

\* vent = mechanical_from_cycles(df_block, cycles, ...)
CallMechanical ==
    /\ pc = "segmented"
    /\ result' = mechanical_from_cycles(df_block, cycles_df, plateau_min_dur)
    /\ engine' = "mech"
    /\ pc' = "done"
    /\ UNCHANGED <<comments_df, block, cycles_df, df_block, plateau_min_dur>>

NextEng == CallVentilatory \/ CallMechanical

SpecEng == InitEng /\ [][NextEng]_vars

----------------------------------------------------------------------------
(* Inputs of the mechanical engine alone: flow and pressure signals over     *)
(* sample periods of 0.05 s, 0.10 s and 0.20 s                               *)

MechSamples == 5

MechGridSteps == {1, 2, 4}
\* flow samples, L/min: 3 L/min is the plateau threshold 0.05 L/s
MechFlowVals == {-3, 30}
\* pressure samples, cmH2O
MechPressureVals == {5, 25}
MechTimes == {1, 4, 16}

MechWaveforms ==
    {Waveform(AllColSet \ {"VolumeResp"}, MechSamples, step, fs, ps, Zeros(MechSamples)) :
        step \in MechGridSteps,
        fs \in [1..MechSamples -> MechFlowVals],
        ps \in [1..MechSamples -> MechPressureVals]}

\* the cycle tables cycles_from_comments returns on the comments
\* INSPI at ti, EXPI at te, INSPI at the last time: one cycle each
MechCycleTables ==
    UNION {
      {cycles_from_comments(
         CommentFrame(<<ti, te, 16>>, <<<<1, "INSPI">>, <<1, "EXPI">>, <<1, "INSPI">>>>), 1) :
         te \in {x \in MechTimes : x > ti}} :
      ti \in MechTimes}

\* values of the keyword argument plateau_min_dur
MinDurs == {plateau_min_dur_default, Fl(0)}

InitMech ==
    /\ pc = "segmented"
    /\ comments_df = NoneDf
    /\ block = 1
    /\ cycles_df \in MechCycleTables
    /\ df_block \in MechWaveforms
    /\ engine = "none"
    /\ plateau_min_dur \in MinDurs
    /\ result = NoResult

NextMech == CallMechanical

SpecMech == InitMech /\ [][NextMech]_vars

----------------------------------------------------------------------------
(* Ventilatory engine on the cycle tables of longer comment lists, where a   *)
(* cycle other than the last one has its next inspiration after its          *)
(* expiration.                                                               *)

PefSamples == 4
PefMaxEvents == 5

\* tables with the time and flow columns only: every flow signal
PefWaveforms ==
    {Waveform({"time_abs", "Flow"}, PefSamples, step, fs, Zeros(PefSamples),
              Zeros(PefSamples)) :
        step \in GridSteps, fs \in [1..PefSamples -> FlowVals]}

\* the cycle tables cycles_from_comments returns on the comment lists of
\* at most PefMaxEvents comments
PefCycleTables ==
    UNION {
      {cycles_from_comments(CommentFrame(ts, bl), 1) :
         ts \in PipeSortedTimes(n), bl \in [1..n -> PipeKinds]} :
      n \in 0..PefMaxEvents}

InitPef ==
    /\ pc = "segmented"
    /\ comments_df = NoneDf
    /\ block = 1
    /\ cycles_df \in PefCycleTables
    /\ df_block \in PefWaveforms
    /\ engine = "none"
    /\ plateau_min_dur = plateau_min_dur_default
    /\ result = NoResult

NextPef == CallVentilatory

SpecPef == InitPef /\ [][NextPef]_vars

----------------------------------------------------------------------------
(* Properties of the segmenter, stated on the comments of the requested    *)
(* block as index sets of the input table.                                 *)

Ev == comments_df.rows
Rows == cycles_df.rows
Segmented == pc = "segmented"

\* the indices i of 1..n with P[i]
RECURSIVE IdxList(_, _)
IdxList(P, n) ==
    IF n = 0 THEN {} ELSE IdxList(P, n - 1) \cup (IF P[n] THEN {n} ELSE {})

InspIdx ==
    IdxList([i \in 1..Len(Ev) |->
               Ev[i].block = block /\ StripUpper(Ev[i].Comment) = "INSPI"], Len(Ev))
ExpIdx ==
    IdxList([i \in 1..Len(Ev) |->
               Ev[i].block = block /\ StripUpper(Ev[i].Comment) = "EXPI"], Len(Ev))
TimeAt(i) == Ev[i].time_block
LastOf(I) == CHOOSE i \in I : \A j \in I : j <= i
LastInsp == LastOf(InspIdx)
ExpAfterIn(X, i) == \E e \in X : TimeAt(e) > TimeAt(i)
HasExpAfter(i) == ExpAfterIn(ExpIdx, i)
\* the inspiration onsets that give a cycle
EmittedIdx ==
    LET I == InspIdx
        X == ExpIdx
        last == LastOf(I)
    IN IdxList([i \in 1..Len(Ev) |-> i \in I /\ i # last /\ ExpAfterIn(X, i)], Len(Ev))
\* the row an inspiration onset of the set Em gives
RowIn(Em, i) == Cardinality({x \in Em : x <= i})

C1Scenario ==
    CommentFrame(<<0, 2, 5, 7>>,
                 <<<<1, "INSPI">>, <<1, "EXPI">>, <<1, "INSPI">>, <<1, "EXPI">>>>)

\* C1 as stated: the block-1 scenario 0 INSPI, 2 EXPI, 5 INSPI, 7 EXPI gives two
\* cycles, (0, 2, next 5) and (5, 7, no next); in general every inspiration onset
\* with a later expiration onset, the last one included, gives a cycle.
C1_AsStated ==
    Segmented =>
      /\ (comments_df = C1Scenario /\ block = 1) =>
            /\ Len(Rows) = 2
            /\ Rows[1].t_inspi = 0 /\ Rows[1].t_expi = 2 /\ Rows[1].t_next_inspi = 5
            /\ Rows[2].t_inspi = 5 /\ Rows[2].t_expi = 7
      /\ Len(Rows) = Cardinality({i \in InspIdx : HasExpAfter(i)})

\* C1 amended: the scenario gives exactly one cycle, number 1 with t_insp 0,
\* t_expi 2, t_next_insp 5; in general the last inspiration onset of a block
\* gives no cycle, also when an expiration onset follows it: the cycles are
\* the inspiration onsets other than the last that have a later expiration.
C1_LastInspirationGivesNoCycle ==
    Segmented =>
      /\ (comments_df = C1Scenario /\ block = 1) =>
            Rows = <<[n_cycle |-> 1, t_inspi |-> 0, t_expi |-> 2, t_next_inspi |-> 5]>>
      /\ LET Em == EmittedIdx
         IN /\ Len(Rows) = Cardinality(Em)
            /\ \A i \in Em : Rows[RowIn(Em, i)].t_inspi = TimeAt(i)

C1_Witness ==
    Segmented /\ comments_df = C1Scenario /\ block = 1 /\ Len(Rows) = 1

\* C2: every emitted cycle's t_expi is the earliest expiration onset of the
\* block that is strictly later than its t_insp, so t_insp < t_expi.
C2_ExpiIsFirstStrictlyAfter ==
    Segmented =>
      \A k \in 1..Len(Rows) :
        /\ Rows[k].t_inspi < Rows[k].t_expi
        /\ \E e \in ExpIdx : TimeAt(e) = Rows[k].t_expi
        /\ \A e \in ExpIdx : TimeAt(e) > Rows[k].t_inspi => TimeAt(e) >= Rows[k].t_expi

C2_Witness ==
    /\ Segmented
    /\ \E k \in 1..Len(Rows) :
         /\ \E e \in ExpIdx : TimeAt(e) = Rows[k].t_inspi
         /\ \E e \in ExpIdx : TimeAt(e) > Rows[k].t_expi

\* C3: the n_cycle values are 1..count in row order, and the rows are in
\* ascending order of t_insp.
C3_NCycleSequential ==
    Segmented =>
      \A k \in 1..Len(Rows) :
        /\ Rows[k].n_cycle = k
        /\ k < Len(Rows) => Rows[k].t_inspi <= Rows[k + 1].t_inspi

C3_Witness ==
    Segmented /\ Len(Rows) >= 3 /\ Rows[1].t_inspi < Rows[3].t_inspi

\* C4: for consecutive records k and k+1, t_next_insp of k is t_insp of k+1,
\* also when inspiration onsets are dropped for lack of a later expiration.
C4_NextInspChains ==
    Segmented =>
      \A k \in 1..(Len(Rows) - 1) : Rows[k].t_next_inspi = Rows[k + 1].t_inspi

C4_Witness ==
    /\ Segmented
    /\ Len(Rows) >= 2
    /\ \E i \in InspIdx : i # LastInsp /\ ~HasExpAfter(i)

\* two inspiration onsets i < j with no inspiration onset between them, no
\* expiration onset in (time i, time j], and an expiration onset after time j
AdjacentInspirations(i, j) ==
    /\ i \in InspIdx /\ j \in InspIdx /\ i < j
    /\ \A x \in InspIdx : ~(i < x /\ x < j)
    /\ \A e \in ExpIdx : ~(TimeAt(i) < TimeAt(e) /\ TimeAt(e) <= TimeAt(j))
    /\ HasExpAfter(j)

\* the output holds a cycle for i and a cycle for j with the same t_expi
TwoCyclesShareExpi(i, j) ==
    \E k \in 1..(Len(Rows) - 1) :
      /\ Rows[k].t_inspi = TimeAt(i)
      /\ Rows[k + 1].t_inspi = TimeAt(j)
      /\ Rows[k].t_expi = Rows[k + 1].t_expi

\* C5 as stated: two adjacent inspiration onsets with no expiration between
\* them, followed by an expiration onset, give two cycles sharing one t_expi.
C5_AsStated ==
    Segmented =>
      \A i \in InspIdx : \A j \in InspIdx :
        AdjacentInspirations(i, j) => TwoCyclesShareExpi(i, j)

\* C5 amended: they give two cycles sharing one t_expi provided the second of
\* them is not the last inspiration onset of the block; the rows are adjacent
\* and not deduplicated.
C5_AdjacentInspirationsShareExpi ==
    Segmented =>
      LET I == InspIdx
          Em == EmittedIdx
          last == LastOf(I)
      IN \A i \in I : \A j \in I \ {last} :
           (i < j /\ AdjacentInspirations(i, j)) =>
             /\ TwoCyclesShareExpi(i, j)
             /\ RowIn(Em, j) = RowIn(Em, i) + 1
             /\ Rows[RowIn(Em, i)].t_expi = Rows[RowIn(Em, j)].t_expi

C5_Witness ==
    /\ Segmented
    /\ \E i \in InspIdx : \E j \in InspIdx :
         AdjacentInspirations(i, j) /\ j # LastInsp /\ TimeAt(i) < TimeAt(j)

----------------------------------------------------------------------------
(* Properties of the metric engines *)

Done == pc = "done"
Res == result.rows
Raised == result.kind = "KeyError"
DfCols == ColSet(df_block)
DfNonEmpty == df_block.kind = "df" /\ ~IsEmptyDf(df_block)
CycNonEmpty == cycles_df.kind = "df" /\ ~IsEmptyDf(cycles_df)
\* the waveform columns the specification calls mandatory
Mandatory ==
    IF engine = "mech" THEN {"time_abs", "Flow", "Pressure"} ELSE {"time_abs", "Flow"}

\* C6 as stated: with non-empty tables, a missing mandatory waveform column
\* (time_abs, flow, for the mechanical engine also pressure) ends the call in
\* a raised error; a missing volume column alone never raises.
C6_AsStated ==
    (Done /\ DfNonEmpty /\ CycNonEmpty) =>
      /\ ~(Mandatory \subseteq DfCols) => Raised
      /\ (AllColSet \ DfCols = {"VolumeResp"}) => ~Raised

\* C6 amended: ventilatory_from_cycles raises exactly when time_abs is
\* missing; without the flow column it returns one row per cycle with PIF and
\* PEF NaN (and VT NaN when the volume is missing too).  mechanical_from_cycles
\* never raises on a missing waveform column: without time_abs, flow or
\* pressure it returns its empty table.  A missing volume column alone never
\* raises and a table with one row per cycle is returned.
C6_MissingWaveformColumns ==
    (Done /\ DfNonEmpty /\ CycNonEmpty) =>
      /\ engine = "vent" =>
           /\ Raised <=> "time_abs" \notin DfCols
           /\ ("time_abs" \in DfCols /\ "Flow" \notin DfCols) =>
                /\ result.kind = "df" /\ Len(Res) = Len(cycles_df.rows)
                /\ \A k \in 1..Len(Res) :
                     /\ ~IsFinite(Res[k].PIF) /\ ~IsFinite(Res[k].PEF)
                     /\ "VolumeResp" \notin DfCols => ~IsFinite(Res[k].VT)
      /\ engine = "mech" =>
           /\ ~Raised
           /\ ~({"time_abs", "Flow", "Pressure"} \subseteq DfCols) =>
                result.kind = "df" /\ Len(Res) = 0 /\ result.cols = MechEmptySchema
      /\ (AllColSet \ DfCols = {"VolumeResp"}) =>
           result.kind = "df" /\ Len(Res) = Len(cycles_df.rows)

C6_Witness ==
    /\ Done /\ DfNonEmpty /\ CycNonEmpty /\ engine = "vent"
    /\ "time_abs" \in DfCols /\ "Flow" \notin DfCols
    /\ result.kind = "df" /\ Len(Res) >= 2

\* C7 as stated: an empty or absent waveform or cycle table gives, without an
\* error, an empty table with exactly the columns of the engine's non-empty
\* result (12 ventilatory fields; for the mechanical engine those plus PEEP,
\* Ppeak, Pplat, dP, Cstat, R, MAP).
C7_AsStated ==
    (Done /\ (~DfNonEmpty \/ ~CycNonEmpty)) =>
      /\ result.kind = "df"
      /\ Len(Res) = 0
      /\ result.cols = IF engine = "mech" THEN MechSchema ELSE VentSchema

\* C8 as stated: for the cycle with no following inspiration onset, on a
\* waveform with time and flow, Ttot, Te, BF and PEF are NaN and Ti, VT and
\* PIF are finite, whatever the source of VT and the sample mapping.
C8_AsStated ==
    (Done /\ result.kind = "df" /\ Len(Res) > 0 /\ {"time_abs", "Flow"} \subseteq DfCols) =>
      LET r == Res[Len(Res)]
      IN /\ ~IsFinite(r.Ttot) /\ ~IsFinite(r.Te) /\ ~IsFinite(r.BF) /\ ~IsFinite(r.PEF)
         /\ IsFinite(r.Ti) /\ IsFinite(r.VT) /\ IsFinite(r.PIF)

\* C8 amended: Ttot, Te, BF and PEF are NaN and Ti and PIF are finite; VT is
\* finite when it comes from the volume channel, and when it comes from flow
\* integration it is finite exactly when t_insp and t_expi map to different
\* samples (NaN when they map to the same sample).
C8_LastCycleMetrics ==
    (Done /\ result.kind = "df" /\ Len(Res) > 0 /\ {"time_abs", "Flow"} \subseteq DfCols) =>
      LET r == Res[Len(Res)]
      IN /\ ~IsFinite(r.Ttot) /\ ~IsFinite(r.Te) /\ ~IsFinite(r.BF) /\ ~IsFinite(r.PEF)
         /\ IsFinite(r.Ti) /\ IsFinite(r.PIF)
         /\ IsFinite(r.VT) <=> ("VolumeResp" \in DfCols \/ r.t_insp # r.t_expi)

C8_Witness ==
    /\ Done /\ result.kind = "df" /\ Len(Res) >= 2
    /\ {"time_abs", "Flow"} \subseteq DfCols /\ "VolumeResp" \notin DfCols
    /\ IsFinite(Res[1].Ttot)
    /\ ~IsFinite(Res[Len(Res)].Ttot) /\ IsFinite(Res[Len(Res)].VT)

\* the waveform the engine was called on, in ticks and L/min
WT == TimeOf(df_block)
\* the sample indices the k-th cycle record maps to
I0(k) == nearest_idx(WT, cycles_df.rows[k].t_inspi)
I1(k) == nearest_idx(WT, cycles_df.rows[k].t_expi)
\* sample i lies in the tail window of cycle k: the last max(0.15 s, 0.3 x
\* inspiratory duration) of the inspiratory span (3 ticks are 0.15 s)
InTail(k, i) ==
    LET d == WT[I1(k)] - WT[I0(k)]
        w10 == IF 3 * d > 30 THEN 3 * d ELSE 30
    IN /\ WT[i] >= WT[I0(k)]
       /\ 10 * WT[i] >= 10 * WT[I1(k)] - w10
       /\ WT[i] <= WT[I1(k)]
\* |flow| <= 0.05 L/s, that is 3 L/min
LowFlow(i) == Abs(df_block.rows[i].Flow) <= 3
\* the tail of cycle k holds a low-flow run of duration >= plateau_min_dur
HasLongLowRun(k) ==
    \E a \in 1..Len(WT) : \E b \in a..Len(WT) :
      /\ \A i \in a..b : InTail(k, i) /\ LowFlow(i)
      /\ FGe(Sec(WT[b] - WT[a]), plateau_min_dur)

\* C9: in a cycle whose inspiratory tail holds no low-flow run of duration
\* >= plateau_min_dur, Pplat, Cstat and R are NaN and dP is Ppeak - PEEP
\* (float subtraction: NaN when Ppeak or PEEP is NaN).
C9_NoPlateauFallback ==
    (Done /\ result.kind = "df") =>
      \A k \in 1..Len(Res) :
        ~HasLongLowRun(k) =>
          /\ ~IsFinite(Res[k].Pplat) /\ ~IsFinite(Res[k].Cstat) /\ ~IsFinite(Res[k].R)
          /\ Res[k].dP = FSub(Res[k].Ppeak, Res[k].PEEP)

C9_Witness ==
    /\ Done /\ result.kind = "df" /\ plateau_min_dur = plateau_min_dur_default
    /\ \E k \in 1..Len(Res) :
         /\ ~HasLongLowRun(k)
         /\ \E i \in 1..(Len(WT) - 1) :
              InTail(k, i) /\ LowFlow(i) /\ InTail(k, i + 1) /\ LowFlow(i + 1)
         /\ IsFinite(Res[k].dP) /\ FGt(Res[k].dP, Fl(0))

\* C10 as stated: every cycle whose record carries a t_next_insp gets
\* Ttot = t[nearest(t_next_insp)] - t[nearest(t_insp)]; every record of
\* cycles_from_comments carries one.
C10_AsStated ==
    (Done /\ result.kind = "df") =>
      \A k \in 1..Len(Res) :
        Res[k].Ttot =
          Sec(WT[nearest_idx(WT, cycles_df.rows[k].t_next_inspi)] - WT[I0(k)])

\* <<a, b>> is a maximal run of consecutive low-flow samples of the tail
\* window of cycle k
MaximalLowRun(k, a, b) ==
    /\ a <= b
    /\ \A i \in a..b : InTail(k, i) /\ LowFlow(i)
    /\ a = 1 \/ ~(InTail(k, a - 1) /\ LowFlow(a - 1))
    /\ b = Len(WT) \/ ~(InTail(k, b + 1) /\ LowFlow(b + 1))
\* its duration in seconds
RunDur(a, b) == Sec(WT[b] - WT[a])
\* the run also lasts at least plateau_min_dur
LongLowRun(k, a, b) == MaximalLowRun(k, a, b) /\ FGe(RunDur(a, b), plateau_min_dur)
\* np.nanmedian(P[a..b])
MedianPressure(a, b) ==
    Median([j \in 1..(b - a + 1) |-> Fl(df_block.rows[a + j - 1].Pressure)])

\* C11 as stated: for every plateau_min_dur >= 0, Pplat is finite exactly
\* when the tail window holds a maximal low-flow run of duration
\* >= plateau_min_dur, and Pplat is then the median pressure over a longest
\* such run.
C11_AsStated ==
    (Done /\ result.kind = "df") =>
      \A k \in 1..Len(Res) :
        /\ IsFinite(Res[k].Pplat) <=>
             \E a \in 1..Len(WT) : \E b \in a..Len(WT) : LongLowRun(k, a, b)
        /\ IsFinite(Res[k].Pplat) =>
             \E a \in 1..Len(WT) : \E b \in a..Len(WT) :
               /\ LongLowRun(k, a, b)
               /\ \A a2 \in 1..Len(WT) : \A b2 \in a2..Len(WT) :
                    LongLowRun(k, a2, b2) => FLe(RunDur(a2, b2), RunDur(a, b))
               /\ Res[k].Pplat = MedianPressure(a, b)

\* the ventilatory engine returned a table computed from a flow column
VentWithFlow == Done /\ engine = "vent" /\ result.kind = "df" /\ "Flow" \in DfCols
\* the sample the next inspiration onset of the k-th cycle maps to; the cycle
\* table of cycles_from_comments is in ascending t_inspi order
INext(k) == nearest_idx(WT, cycles_df.rows[k + 1].t_inspi)
\* flow sample j in L/s
FlowAt(j) == Frac(df_block.rows[j].Flow, 60)
\* v is the largest flow sample of the index range a..b
IsMaxFlow(v, a, b) ==
    /\ \E j \in a..b : v = FlowAt(j)
    /\ \A j \in a..b : FLe(FlowAt(j), v)

\* C12 as stated: with a flow column, every cycle that has a following
\* inspiration onset gets a finite PEF, the largest flow sample of
\* [i_expi, i_next], also when i_next <= i_expi; PEF is NaN only for a cycle
\* without a following inspiration onset.
C12_AsStated ==
    VentWithFlow =>
      \A k \in 1..Len(Res) :
        /\ k < Len(Res) =>
             /\ IsFinite(Res[k].PEF)
             /\ \/ IsMaxFlow(Res[k].PEF, I1(k), INext(k))
                \/ IsMaxFlow(Res[k].PEF, INext(k), I1(k))
        /\ ~IsFinite(Res[k].PEF) => k = Len(Res)

\* C12 amended: with a flow column, PEF is finite and is the largest flow
\* sample of [i_expi, i_next] exactly for the cycles that have a following
\* inspiration onset mapped to a sample index strictly after i_expi; PEF is
\* NaN for a cycle with no following inspiration onset and for a cycle whose
\* next inspiration maps to a sample index at or before i_expi.
C12_PEFNeedsLaterSample ==
    VentWithFlow =>
      \A k \in 1..Len(Res) :
        IF k < Len(Res) /\ INext(k) > I1(k)
        THEN IsFinite(Res[k].PEF) /\ IsMaxFlow(Res[k].PEF, I1(k), INext(k))
        ELSE ~IsFinite(Res[k].PEF)

C12_Witness ==
    /\ VentWithFlow /\ Len(Res) >= 2
    /\ INext(1) > I1(1)
    /\ IsFinite(Res[1].PEF) /\ FGt(Res[1].PEF, FlowAt(I1(1)))
    /\ ~IsFinite(Res[Len(Res)].PEF)

\* the waveform's time column is strictly increasing
StrictlyIncreasingTime == \A i \in 1..(Len(WT) - 1) : WT[i] < WT[i + 1]

\* C13: on a waveform with strictly increasing time, in every row of
\* mechanical_from_cycles: Pplat <= Ppeak when both are finite, a finite Pplat
\* is the median pressure of a run of samples inside the inspiratory index
\* span [i0, i1], a finite R is > 0, and a finite Cstat has Pplat > PEEP.
C13_PlateauWithinInspiration ==
    (Done /\ result.kind = "df" /\ StrictlyIncreasingTime) =>
      \A k \in 1..Len(Res) :
        /\ (IsFinite(Res[k].Pplat) /\ IsFinite(Res[k].Ppeak)) =>
             FLe(Res[k].Pplat, Res[k].Ppeak)
        /\ IsFinite(Res[k].Pplat) =>
             \E a \in I0(k)..I1(k) : \E b \in a..I1(k) :
               Res[k].Pplat = MedianPressure(a, b)
        /\ IsFinite(Res[k].R) => FGt(Res[k].R, Fl(0))
        /\ IsFinite(Res[k].Cstat) => FGt(Res[k].Pplat, Res[k].PEEP)

C13_Witness ==
    /\ Done /\ result.kind = "df" /\ StrictlyIncreasingTime
    /\ \E k \in 1..Len(Res) :
         /\ IsFinite(Res[k].Pplat) /\ IsFinite(Res[k].Ppeak)
         /\ FLt(Res[k].Pplat, Res[k].Ppeak)
         /\ IsFinite(Res[k].R) /\ IsFinite(Res[k].Cstat)
         /\ I1(k) < Len(WT)

\* C14 as stated: every table cycles_from_comments returns carries the
\* columns n_cycle, t_inspi, t_expi and t_next_inspi, also when the block has
\* events but no cycle is emitted.
C14_AsStated ==
    pc = "segmented" =>
      /\ cycles_df.kind = "df"
      /\ cycles_df.cols = <<"n_cycle", "t_inspi", "t_expi", "t_next_inspi">>

====
